---- MODULE Spec2Model ----
(***************************************************************************)
(* Model of src/lib/gadgets/basic.ts (o1js): the gadgets arrayGet,         *)
(* assertOneOf and assertNotVectorEquals and the two helpers bilinear and  *)
(* assertBilinear that emit generic gates.                                 *)
(*                                                                         *)
(* The constraint builder is the state: the append-only gate list, the     *)
(* number of allocated variables, and (when witness thunks run) the value  *)
(* of every variable.  One action per call of a gadget or helper.          *)
(*                                                                         *)
(* The collaborators the file imports (Fp, Field, exists, existsOne,       *)
(* toVar, Gates.generic) are not part of the file; they are modelled by     *)
(* their contracts.  A builder runs in one of two modes: "prove", where    *)
(* every witness thunk is executed when its variable is created, and       *)
(* "setup", where no thunk is ever executed.                               *)
(***************************************************************************)
EXTENDS Integers, Sequences, FiniteSets, TLC

\* ------------------------------------------------------------------ bounds

\* The prime of the field Fp (finite_field.js).  A small prime stands for it:
\* inverses differ from their arguments (2 * 3 = 1) and arrays are shorter
\* than the field, as they are in the program.
P == 5

\* Longest array handed to arrayGet.
MaxArr == 3

\* Longest vector handed to assertNotVectorEquals.
MaxVec == 3

\* Longest list of allowed constants handed to assertOneOf.
MaxAllowed == 4

\* The variables the caller has witnessed before calling a gadget.
InputVars == {1}

\* The constants a caller uses for a constant Field (index, entry of an
\* array or of a vector).
EntryConsts == {0, 1}

\* The constants a caller uses for the constant vector c of
\* assertNotVectorEquals.
VecConsts == {0, 1, 3}

\* The coefficients of a direct call of bilinear / assertBilinear.
Coefs == {0 - 1, 0, 1}

VARIABLES mode, gates, nvars, wit, last

vars == <<mode, gates, nvars, wit, last>>

\* ------------------------------------------------------- field arithmetic

Fp == 0 .. (P - 1)

\* Fp.sub(x, y)
FpSub(x, y) == (x - y) % P

\* Fp.fromNumber(j)
FpFromNumber(j) == j % P

\* Fp.inverse(x): the inverse, or no value when x = 0
\* (the result is a set holding at most one element)
FpInverse(x) == { z \in Fp : (z * x) % P = 1 }

\* Fp.div(x, y): x * y^-1, or no value when y has no inverse
FpDiv(x, y) == { (x * z) % P : z \in FpInverse(y) }

\* OrZero with the wrong fallback value (r ?? 1n)
OrOne(r) == IF r = {} THEN 1 ELSE CHOOSE z \in r : TRUE

\* r ?? 0n
OrZero(r) == IF r = {} THEN 0 ELSE CHOOSE z \in r : TRUE

\* ------------------------------------------------------------ Field values

\* A Field is a constant or a variable of the constraint system.
Const(k) == [kind |-> "const", val |-> k, id |-> 0]
Var(n) == [kind |-> "var", val |-> 0, id |-> n]

\* x.isConstant()
isConstant(x) == x.kind = "const"

\* x.toBigInt() inside a witness thunk (variables are read from the witness)
toBigInt(c, x) == IF isConstant(x) THEN x.val ELSE c.wit[x.id]

\* ---------------------------------------------------- builder collaborators

\* The builder context threaded through a call:
\*   mode  "prove" (witness thunks run) or "setup" (they never run)
\*   gates the gate list, nvars the number of variables, wit their values
\*   ok    FALSE once the call has thrown
Ctx(m, g, n, w) == [mode |-> m, gates |-> g, nvars |-> n, wit |-> w, ok |-> TRUE]

\* Gates.generic(coeffs, wires): append one row
Generic(c, coeffs, wires) ==
  [c EXCEPT !.gates = Append(@, [coeffs |-> coeffs, wires |-> wires])]

\* existsOne(compute): a fresh variable; its value is compute() reduced into
\* the field when thunks run
existsOne(c, value) ==
  [c EXCEPT !.nvars = @ + 1,
            !.wit = IF c.mode = "prove" THEN Append(@, value % P) ELSE @]

\* toVar(x) for a Field x: a variable is returned as it is; a constant gets a
\* fresh variable witnessed as the constant and bound to it by one gate
\*   1*v + 0*v + 0*v + 0*v*v - k = 0
toVar(c, x) ==
  IF ~isConstant(x) THEN [c |-> c, v |-> x.id]
  ELSE LET c1 == existsOne(c, x.val)
           v == c1.nvars
       IN [c |-> Generic(c1,
                   [left |-> 1, right |-> 0, out |-> 0, mul |-> 0, const |-> -x.val],
                   [left |-> v, right |-> v, out |-> v]),
           v |-> v]

\* toVar(a.sub(y)) for variables a and y: the difference is not a variable,
\* so it gets a fresh variable bound by one gate  1*a - 1*y - v = 0
toVarSub(c, a, y) ==
  LET c1 == existsOne(c, IF c.mode = "prove" THEN c.wit[a] - c.wit[y] ELSE 0)
      v == c1.nvars
  IN [c |-> Generic(c1,
              [left |-> 1, right |-> -1, out |-> -1, mul |-> 0, const |-> 0],
              [left |-> a, right |-> y, out |-> v]),
      v |-> v]

\* ------------------------------------------------------ low-level helpers

\* bilinear(x, y, [a, b, c, d]): z = a*x*y + b*x + c*y + d
bilinear(c, x, y, t) ==
  LET c1 == existsOne(c, IF c.mode = "prove"
                         THEN t[1] * c.wit[x] * c.wit[y] + t[2] * c.wit[x]
                              + t[3] * c.wit[y] + t[4]
                         ELSE 0)
      z == c1.nvars
  IN [c |-> Generic(c1,
              [left |-> t[2], right |-> t[3], out |-> -1, mul |-> t[1], const |-> t[4]],
              [left |-> x, right |-> y, out |-> z]),
      v |-> z]

\* assertBilinear that forgets that z may be omitted: out is always -1
assertBilinearOutAlways(c, x, y, t, z) ==
  Generic(c,
    [left |-> t[2], right |-> t[3], out |-> -1, mul |-> t[1], const |-> t[4]],
    [left |-> x, right |-> y, out |-> IF z = <<>> THEN x ELSE z[1]])

\* assertBilinear(x, y, [a, b, c, d], z?): z is <<>> when omitted, else <<z>>
assertBilinear(c, x, y, t, z) ==
  Generic(c,
    [left |-> t[2], right |-> t[3], out |-> IF z = <<>> THEN 0 ELSE -1,
     mul |-> t[1], const |-> t[4]],
    [left |-> x, right |-> y, out |-> IF z = <<>> THEN x ELSE z[1]])

\* ---------------------------------------------------------------- arrayGet

\* the thunk of a: array[Number(i.toBigInt())].toBigInt() throws a TypeError
\* when the index is past the end of the array (array[..] is undefined)
arrayGetThrows(c, array, i) == c.mode = "prove" /\ c.wit[i] >= Len(array)

\* the thunk of zj: Fp.div(a - array[j], i - j) ?? 0n
zjThunk(c, array, i, a, j) ==
  IF c.mode = "prove"
  THEN OrZero(FpDiv(FpSub(c.wit[a], toBigInt(c, array[j + 1])),
                    FpSub(c.wit[i], FpFromNumber(j))))
  ELSE 0

\* arrayGetStep with the sign of j lost: zj*i + j*zj instead of zj*i - j*zj
arrayGetStepWrongSign(c, array, i, a, j) ==
  LET c1 == existsOne(c, zjThunk(c, array, i, a, j))
      zj == c1.nvars
  IN IF isConstant(array[j + 1])
     THEN assertBilinear(c1, zj, i, <<1, j, 0, array[j + 1].val>>, <<a>>)
     ELSE LET s == toVarSub(c1, a, array[j + 1].id)
          IN assertBilinear(s.c, zj, i, <<1, j, 0, 0>>, <<s.v>>)

\* one iteration of the loop over j
arrayGetStep(c, array, i, a, j) ==
  LET c1 == existsOne(c, zjThunk(c, array, i, a, j))
      zj == c1.nvars
  IN IF isConstant(array[j + 1])
     THEN assertBilinear(c1, zj, i, <<1, -j, 0, array[j + 1].val>>, <<a>>)
     ELSE LET s == toVarSub(c1, a, array[j + 1].id)
          IN assertBilinear(s.c, zj, i, <<1, -j, 0, 0>>, <<s.v>>)

\* arrayGetLoop that stops one entry early (j < n - 1)
RECURSIVE arrayGetLoopShort(_, _, _, _, _)
arrayGetLoopShort(r, array, i, a, j) ==
  IF j >= Len(array) - 1 THEN r
  ELSE arrayGetLoopShort([c |-> arrayGetStep(r.c, array, i, a, j),
                          zs |-> Append(r.zs, r.c.nvars + 1)],
                         array, i, a, j + 1)

RECURSIVE arrayGetLoop(_, _, _, _, _)
arrayGetLoop(r, array, i, a, j) ==
  IF j >= Len(array) THEN r
  ELSE arrayGetLoop([c |-> arrayGetStep(r.c, array, i, a, j),
                     zs |-> Append(r.zs, r.c.nvars + 1)],
                    array, i, a, j + 1)

\* arrayGet(array, index): the context after the call, the returned variable
\* ret (<<>> when the call threw) and the variables zs it witnessed
arrayGet(c, array, index) ==
  LET t == toVar(c, index)
      i == t.v
  IN IF arrayGetThrows(t.c, array, i)
     THEN [c |-> [t.c EXCEPT !.ok = FALSE], ret |-> <<>>, zs |-> <<>>]
     ELSE LET c1 == existsOne(t.c, IF t.c.mode = "prove"
                                   THEN toBigInt(t.c, array[t.c.wit[i] + 1])
                                   ELSE 0)
              a == c1.nvars
              r == arrayGetLoop([c |-> c1, zs |-> <<>>], array, i, a, 0)
          IN [c |-> r.c, ret |-> <<a>>, zs |-> r.zs]

\* ------------------------------------------------------------- assertOneOf

\* assertOneOfLoop that asserts one constant too early (i < n - 2)
RECURSIVE assertOneOfLoopEarly(_, _, _, _, _)
assertOneOfLoopEarly(c, z, xv, cs, i) ==
  LET n == Len(cs)
  IN IF i >= n THEN c
     ELSE IF i < n - 2
          THEN LET b == bilinear(c, z, xv, <<1, -cs[i + 1], 0, 0>>)
               IN assertOneOfLoopEarly(b.c, b.v, xv, cs, i + 1)
          ELSE assertOneOfLoopEarly(
                 assertBilinear(c, z, xv, <<1, -cs[i + 1], 0, 0>>, <<>>),
                 z, xv, cs, i + 1)

RECURSIVE assertOneOfLoop(_, _, _, _, _)
assertOneOfLoop(c, z, xv, cs, i) ==
  LET n == Len(cs)
  IN IF i >= n THEN c
     ELSE IF i < n - 1
          THEN LET b == bilinear(c, z, xv, <<1, -cs[i + 1], 0, 0>>)
               IN assertOneOfLoop(b.c, b.v, xv, cs, i + 1)
          ELSE assertOneOfLoop(assertBilinear(c, z, xv, <<1, -cs[i + 1], 0, 0>>, <<>>),
                               z, xv, cs, i + 1)

\* assertOneOf(x, allowed)
assertOneOf(c, x, allowed) ==
  LET t == toVar(c, x)
      xv == t.v
      c1 == allowed[1]
      c2 == allowed[2]
      cs == SubSeq(allowed, 3, Len(allowed))
      first == <<1, -(c1 + c2), 0, c1 * c2>>
  IN IF Len(cs) = 0
     THEN [c |-> assertBilinear(t.c, xv, xv, first, <<>>), ret |-> <<>>, zs |-> <<>>]
     ELSE LET b == bilinear(t.c, xv, xv, first)
          IN [c |-> assertOneOfLoop(b.c, b.v, xv, cs, 0), ret |-> <<>>, zs |-> <<>>]

\* --------------------------------------------------- assertNotVectorEquals

\* x.map(toVar)
RECURSIVE mapToVar(_, _, _)
mapToVar(r, x, k) ==
  IF k > Len(x) THEN r
  ELSE LET t == toVar(r.c, x[k])
       IN mapToVar([c |-> t.c, vs |-> Append(r.vs, t.v)], x, k + 1)

\* x.findIndex((xi, i) => xi.toBigInt() !== c[i]): 0-based, -1 when none
findIndex(c, x, cv) ==
  LET hits == { k \in 1 .. Len(x) : toBigInt(c, x[k]) # cv[k] }
  IN IF hits = {} THEN -1
     ELSE (CHOOSE k \in hits : \A h \in hits : k <= h) - 1

\* zThunk that stores the difference x[i] - c[i] instead of its inverse
zThunkNoInverse(c, x, cv) ==
  LET i == findIndex(c, x, cv)
  IN [k \in 1 .. Len(cv) |->
        IF i # -1 /\ k = i + 1
        THEN FpSub(toBigInt(c, x[k]), cv[k])
        ELSE 0]

\* the thunk of z: all 0, but (x[i] - c[i])^-1 ?? 0n at the index found
zThunk(c, x, cv) ==
  LET i == findIndex(c, x, cv)
  IN [k \in 1 .. Len(cv) |->
        IF i # -1 /\ k = i + 1
        THEN OrZero(FpInverse(FpSub(toBigInt(c, x[k]), cv[k])))
        ELSE 0]

\* exists(n, compute): n fresh variables
exists(c, n, values) ==
  [c EXCEPT !.nvars = @ + n,
            !.wit = IF c.mode = "prove"
                    THEN @ \o [k \in 1 .. n |-> values[k] % P]
                    ELSE @]

\* products = xv.map((xi, i) => bilinear(xi, z[i], [1, 0, -c[i], 0]))
RECURSIVE productsLoop(_, _, _, _, _)
productsLoop(r, xv, z, cv, k) ==
  IF k > Len(xv) THEN r
  ELSE LET b == bilinear(r.c, xv[k], z[k], <<1, 0, -cv[k], 0>>)
       IN productsLoop([c |-> b.c, vs |-> Append(r.vs, b.v)], xv, z, cv, k + 1)

\* sumLoop that stops one product early (i < n - 2)
RECURSIVE sumLoopShort(_, _, _, _)
sumLoopShort(r, products, n, i) ==
  IF i >= n - 2 THEN r
  ELSE LET b == bilinear(r.c, r.v, products[i + 1], <<0, 1, 1, 0>>)
       IN sumLoopShort([c |-> b.c, v |-> b.v], products, n, i + 1)

\* for (i = 1; i < n - 1; i++) sum = bilinear(sum, products[i], [0, 1, 1, 0])
RECURSIVE sumLoop(_, _, _, _)
sumLoop(r, products, n, i) ==
  IF i >= n - 1 THEN r
  ELSE LET b == bilinear(r.c, r.v, products[i + 1], <<0, 1, 1, 0>>)
       IN sumLoop([c |-> b.c, v |-> b.v], products, n, i + 1)

\* assert(n > 1 && x.length === n, ...)
lengthsMatch(x, cv) == Len(cv) > 1 /\ Len(x) = Len(cv)

\* assertNotVectorEquals(x, c)
assertNotVectorEquals(c, x, cv) ==
  LET m == mapToVar([c |-> c, vs |-> <<>>], x, 1)
      xv == m.vs
      n == Len(cv)
  IN IF ~lengthsMatch(x, cv)
     THEN [c |-> [m.c EXCEPT !.ok = FALSE], ret |-> <<>>, zs |-> <<>>]
     ELSE LET c1 == exists(m.c, n, IF m.c.mode = "prove"
                                   THEN zThunk(m.c, x, cv)
                                   ELSE [k \in 1 .. n |-> 0])
              z == [k \in 1 .. n |-> m.c.nvars + k]
              pr == productsLoop([c |-> c1, vs |-> <<>>], xv, z, cv, 1)
              products == pr.vs
              s == sumLoop([c |-> pr.c, v |-> products[1]], products, n, 1)
          IN [c |-> assertBilinear(s.c, s.v, products[n], <<0, 1, 1, -1>>, <<>>),
              ret |-> <<>>, zs |-> z]

\* ----------------------------------------------------------- state machine

\* Sequences over S of length lo .. hi
SeqsOf(S, lo, hi) == UNION { [1 .. n -> S] : n \in lo .. hi }

\* Field values a caller hands to a gadget: constants and witnessed variables
Entries == { Const(k) : k \in EntryConsts } \cup { Var(v) : v \in InputVars }

NoCall ==
  [op |-> "none", arr |-> <<>>, cs |-> <<>>, tgt |-> <<>>, ok |-> TRUE,
   prior |-> <<>>, base |-> 0, nv0 |-> 0, ret |-> <<>>, zs |-> <<>>]

\* The record of the call that was made: its inputs, the gate list (prior),
\* its length (base) and the number of variables (nv0) before the call, and
\* the call's outcome.
Called(op, arr, cs, tgt, r) ==
  [op |-> op, arr |-> arr, cs |-> cs, tgt |-> tgt, ok |-> r.c.ok,
   prior |-> gates, base |-> Len(gates), nv0 |-> nvars,
   ret |-> r.ret, zs |-> r.zs]

Here == Ctx(mode, gates, nvars, wit)

Commit(r, rec) ==
  /\ gates' = r.c.gates
  /\ nvars' = r.c.nvars
  /\ wit' = r.c.wit
  /\ last' = rec
  /\ UNCHANGED mode

Init ==
  /\ mode \in {"prove", "setup"}
  /\ gates = <<>>
  /\ nvars = Cardinality(InputVars)
  /\ wit \in (IF mode = "prove" THEN [InputVars -> Fp] ELSE {<<>>})
  /\ last = NoCall

\* The surrounding circuit emits a row of its own on a variable it witnessed
\* (at most one, before it calls a gadget).
CallerGate ==
  /\ last.op = "none"
  /\ gates = <<>>
  /\ \E v \in InputVars :
       gates' = Generic(Here,
                  [left |-> 1, right |-> 0, out |-> -1, mul |-> 0, const |-> 0],
                  [left |-> v, right |-> v, out |-> v]).gates
  /\ UNCHANGED <<mode, nvars, wit, last>>

CallArrayGet ==
  /\ last.op = "none"
  /\ \E array \in SeqsOf(Entries, 1, MaxArr), index \in Entries :
       LET r == arrayGet(Here, array, index)
       IN Commit(r, Called("arrayGet", array \o <<index>>, <<>>, <<>>, r))

CallAssertOneOf ==
  /\ last.op = "none"
  /\ \E x \in Entries, allowed \in SeqsOf(Fp, 2, MaxAllowed) :
       LET r == assertOneOf(Here, x, allowed)
       IN Commit(r, Called("assertOneOf", <<x>>, allowed, <<>>, r))

CallAssertNotVectorEquals ==
  /\ last.op = "none"
  /\ \E x \in SeqsOf(Entries, 1, MaxVec), cv \in SeqsOf(VecConsts, 1, MaxVec) :
       \* a call with mismatched lengths is tried with c = (0, ..., 0) only:
       \* the call reads nothing of c but its length
       /\ Len(x) # Len(cv) => \A k \in 1 .. Len(cv) : cv[k] = 0
       /\ LET r == assertNotVectorEquals(Here, x, cv)
          IN Commit(r, Called("assertNotVectorEquals", x, cv, <<>>, r))

CallBilinear ==
  /\ last.op = "none"
  /\ \E x \in 1 .. nvars, y \in 1 .. nvars, t \in [1 .. 4 -> Coefs] :
       LET b == bilinear(Here, x, y, t)
           r == [c |-> b.c, ret |-> <<b.v>>, zs |-> <<>>]
       IN Commit(r, Called("bilinear", <<Var(x), Var(y)>>, t, <<>>, r))

CallAssertBilinear ==
  /\ last.op = "none"
  /\ \E x \in 1 .. nvars, y \in 1 .. nvars, t \in [1 .. 4 -> Coefs],
        z \in {<<>>} \cup { <<v>> : v \in 1 .. nvars } :
       LET r == [c |-> assertBilinear(Here, x, y, t, z), ret |-> <<>>, zs |-> <<>>]
       IN Commit(r, Called("assertBilinear", <<Var(x), Var(y)>>, t, z, r))

Next ==
  \/ CallerGate
  \/ CallArrayGet
  \/ CallAssertOneOf
  \/ CallAssertNotVectorEquals
  \/ CallBilinear
  \/ CallAssertBilinear

Spec == Init /\ [][Next]_vars

TypeOK ==
  /\ mode \in {"prove", "setup"}
  /\ nvars \in Nat
  /\ Len(wit) = (IF mode = "prove" THEN nvars ELSE 0)
  /\ \A k \in 1 .. Len(wit) : wit[k] \in Fp

\* ------------------------------------------------- what the gates enforce

\* A gate row enforces  left*x + right*y + out*z + mul*x*y + const = 0  in Fp
GateHolds(g, w) ==
  (g.coeffs.left * w[g.wires.left] + g.coeffs.right * w[g.wires.right]
   + g.coeffs.out * w[g.wires.out]
   + g.coeffs.mul * w[g.wires.left] * w[g.wires.right]
   + g.coeffs.const) % P = 0

MaxOf(a, b) == IF a >= b THEN a ELSE b

\* the youngest variable a gate is wired to
MaxWire(g) == MaxOf(g.wires.left, MaxOf(g.wires.right, g.wires.out))

\* Assignments of variables 1 .. n extending those in ws (to 1 .. k-1) that
\* satisfy every gate of gs wired to a variable in k .. n.
RECURSIVE Extend(_, _, _, _)
Extend(gs, ws, k, n) ==
  IF k > n THEN ws
  ELSE LET gk == { g \in gs : MaxWire(g) = k }
       IN Extend(gs,
                 { w \in { Append(u, v) : u \in ws, v \in Fp } :
                     \A g \in gk : GateHolds(g, w) },
                 k + 1, n)

\* All assignments of variables 1 .. n that extend w0 and satisfy gs
Solutions(gs, w0, n) ==
  IF \A g \in gs : MaxWire(g) <= Len(w0) => GateHolds(g, w0)
  THEN Extend(gs, {w0}, Len(w0) + 1, n)
  ELSE {}

\* the gates the last call emitted
NewGates == SubSeq(gates, last.base + 1, Len(gates))
NewGateSet == { NewGates[k] : k \in 1 .. Len(NewGates) }

\* the values of the caller's variables, and of a Field the caller passed
InputWit == SubSeq(wit, 1, last.nv0)
FieldVal(x) == IF isConstant(x) THEN x.val ELSE wit[x.id]

\* how many entries of xs satisfy being constant / variable
NumConst(xs) == Cardinality({ k \in 1 .. Len(xs) : isConstant(xs[k]) })
NumVar(xs) == Len(xs) - NumConst(xs)

\* the arguments of the last call of arrayGet
ArgArray == SubSeq(last.arr, 1, Len(last.arr) - 1)
ArgIndex == last.arr[Len(last.arr)]

\* ------------------------------------------------------------------ C1

\* C1: for an index whose value is in [0, n), arrayGet returns a variable
\* witnessed as array[i]; the witnesses z_j it chooses (0 at j = i, else the
\* quotient (a - array[j]) / (i - j)) satisfy every emitted gate; and every
\* assignment that satisfies the emitted gates has a = array[i].
C1_ArrayGetCorrect ==
  (last.op = "arrayGet" /\ mode = "prove" /\ FieldVal(ArgIndex) < Len(ArgArray)) =>
    /\ last.ok
    /\ last.ret # <<>>
    /\ LET iv == FieldVal(ArgIndex)
           a == last.ret[1]
           want == FieldVal(ArgArray[iv + 1])
       IN /\ wit[a] = want
          /\ \A j \in 0 .. Len(ArgArray) - 1 :
               LET zj == wit[last.zs[j + 1]]
               IN IF j = iv THEN zj = 0
                  ELSE (zj * (iv - j)) % P = (wit[a] - FieldVal(ArgArray[j + 1])) % P
          /\ \A g \in NewGateSet : GateHolds(g, wit)
          /\ \A w \in Solutions(NewGateSet, InputWit, nvars) : w[a] = want

C1_Witness ==
  /\ last.op = "arrayGet" /\ mode = "prove" /\ last.ok
  /\ Len(ArgArray) = 3
  /\ FieldVal(ArgIndex) = 1
  /\ isConstant(ArgArray[1]) /\ ~isConstant(ArgArray[2])
  /\ FieldVal(ArgArray[2]) # FieldVal(ArgArray[1])
  /\ wit[last.ret[1]] = FieldVal(ArgArray[2])

\* ------------------------------------------------------------------ C2

\* the arguments of the last call of assertNotVectorEquals
ArgX == last.arr
ArgC == last.cs

Differs == { k \in 1 .. Len(ArgC) : FieldVal(ArgX[k]) # ArgC[k] }
FirstDiffers == CHOOSE k \in Differs : \A h \in Differs : k <= h

\* C3: when x differs from c somewhere, the witness z chosen (the inverse of
\* x[i] - c[i] at the first differing index, 0 elsewhere) with the computed
\* products and sums satisfies every emitted gate; when x = c no assignment
\* of the variables of the call satisfies all emitted gates.
C3_VectorInequality ==
  (last.op = "assertNotVectorEquals" /\ mode = "prove" /\ last.ok) =>
    LET d == Differs
    IN IF d # {}
       THEN LET i == CHOOSE k \in d : \A h \in d : k <= h
            IN /\ \A k \in 1 .. Len(ArgC) :
                    IF k = i
                    THEN (wit[last.zs[k]] * (FieldVal(ArgX[k]) - ArgC[k])) % P = 1
                    ELSE wit[last.zs[k]] = 0
               /\ \A g \in NewGateSet : GateHolds(g, wit)
       ELSE Solutions(NewGateSet, InputWit, nvars) = {}

C3_Witness ==
  /\ last.op = "assertNotVectorEquals" /\ mode = "prove" /\ last.ok
  /\ Len(ArgC) = 3
  /\ Differs = {3}
  /\ isConstant(ArgX[1]) /\ ~isConstant(ArgX[3])
  /\ wit[last.zs[3]] = 3
  /\ \A g \in NewGateSet : GateHolds(g, wit)

\* ------------------------------------------------------------------ C4

\* the arguments of the last call of assertOneOf
ArgOneX == last.arr[1]
ArgAllowed == last.cs

\* (x - c1)(x - c2)...(x - ck) in Fp
RECURSIVE RunningProduct(_, _, _)
RunningProduct(x, cs, k) ==
  IF k = 0 THEN 1 ELSE (RunningProduct(x, cs, k - 1) * (x - cs[k])) % P

IsAllowed == \E k \in 1 .. Len(ArgAllowed) : FieldVal(ArgOneX) = ArgAllowed[k]

\* the variable of the k-th intermediate product z (k = 1 is (x-c1)(x-c2))
OneOfZ(k) == last.nv0 + NumConst(<<ArgOneX>>) + k

RerunGates(c) ==
  CASE last.op = "arrayGet" -> arrayGet(c, ArgArray, ArgIndex).c.gates
    [] last.op = "assertOneOf" -> assertOneOf(c, ArgOneX, ArgAllowed).c.gates
    [] last.op = "assertNotVectorEquals" ->
         assertNotVectorEquals(c, ArgX, ArgC).c.gates

\* the same builder state in either mode and with any witness values
OtherContexts ==
  { Ctx("setup", last.prior, last.nv0, <<>>) }
    \cup { Ctx("prove", last.prior, last.nv0, w) : w \in [1 .. last.nv0 -> Fp] }

\* C7: a gadget called on the same inputs emits the same sequence of gates
\* whether or not the witness thunks run, and whatever the witness values.
C7_Original ==
  (last.op \in {"arrayGet", "assertOneOf", "assertNotVectorEquals"}) =>
    \A c \in OtherContexts : RerunGates(c) = gates

\* ------------------------------------------------------------------ C8

\* C8: for an index whose value is outside [0, n), arrayGet completes, emits
\* the gates it emits for any index, returns a result, and the result is
\* unconstrained.
C8_Original ==
  (last.op = "arrayGet" /\ mode = "prove" /\ FieldVal(ArgIndex) >= Len(ArgArray)) =>
    /\ last.ok
    /\ last.ret # <<>>
    /\ RerunGates(Ctx("setup", last.prior, last.nv0, <<>>)) = gates
    /\ \A v \in Fp :
         \E w \in Solutions(NewGateSet, InputWit, nvars) : w[last.ret[1]] = v

\* ------------------------------------------------------------------ C9

ArgBx == last.arr[1].id
ArgBy == last.arr[2].id
ArgT == last.cs

\* a*x*y + b*x + c*y + d in Fp under the assignment w
BilinearForm(w) ==
  (ArgT[1] * w[ArgBx] * w[ArgBy] + ArgT[2] * w[ArgBx] + ArgT[3] * w[ArgBy]
   + ArgT[4]) % P

====
